---- MODULE Spec2Model ----
(***************************************************************************)
(* Model of gym_tiger/envs/tiger_env.py: the TigerEnv episode engine.      *)
(*                                                                         *)
(* Probabilities are kept in hundredths: obs_accuracy = .85 is 85 and a    *)
(* draw of np.random.rand() in [0, 1) is an integer in 0..99, so that the  *)
(* comparison rand() < obs_accuracy keeps its outcome.                     *)
(* Python lists are 0-indexed, sequences here are 1-indexed:               *)
(* action_episode_memory[curr_episode] is action_episode_memory[curr_episode + 1]. *)
(***************************************************************************)
EXTENDS Integers, Sequences, FiniteSets

VARIABLES
    max_steps_per_episode,  \* constructor parameter
    obs_accuracy,           \* constructor parameter, in hundredths
    curr_episode,
    action_episode_memory,  \* sequence of per-episode action logs
    curr_step,
    left_door_open,
    right_door_open,
    tiger_left,             \* 0 or 1, as drawn by np.random.randint(0, 2)
    tiger_right,
    ret,                    \* outcome of the last call, as the caller sees it
    returned,               \* history: step() calls of this episode that returned
    done_seen               \* history: a step() of this episode returned done=True

vars == <<max_steps_per_episode, obs_accuracy, curr_episode,
          action_episode_memory, curr_step, left_door_open, right_door_open,
          tiger_left, tiger_right, ret, returned, done_seen>>

config == <<max_steps_per_episode, obs_accuracy>>

----------------------------------------------------------------------------
(* Bounds of the exploration *)

MaxN == 3          \* largest max_steps_per_episode explored by Spec
MaxEpisode == 1    \* largest episode index explored (construction starts episode 0)
MaxLogged == 5     \* most actions recorded in the whole history

----------------------------------------------------------------------------
(* Module constants *)

OBS_GROWL_LEFT == <<1, 0, 0, 0>>
OBS_GROWL_RIGHT == <<0, 1, 0, 0>>
OBS_START == <<0, 0, 1, 0>>

ACTION_OPEN_LEFT == 0
ACTION_OPEN_RIGHT == 1
ACTION_LISTEN == 2

ACTION_MAP == [a \in {ACTION_OPEN_LEFT, ACTION_OPEN_RIGHT, ACTION_LISTEN} |->
                 CASE a = ACTION_OPEN_LEFT -> "OPEN_LEFT"
                   [] a = ACTION_OPEN_RIGHT -> "OPEN_RIGHT"
                   [] a = ACTION_LISTEN -> "LISTEN"]

(* spaces.Discrete(3): the size of the declared observation space *)
observation_space_n == 3

(* Constructor defaults *)
reward_tiger == -100
reward_gold == 10
reward_listen == -1
DefaultObsAccuracy == 85
DefaultMaxSteps == 100

(* Inputs of the caller and of the random source *)
Actions == 0..3                  \* 3 stands for every value outside the enumeration
Draws == {0, 85, 99}             \* np.random.rand(), in hundredths
Sides == 0..1                    \* np.random.randint(0, 2)
Accuracies == {0, DefaultObsAccuracy, 100}

(* What a call that raised, or that returns nothing, leaves in ret *)
NoOb == <<>>
NoReward == 0

Truthy(x) == x # 0

(* tiger_right = OtherSide(t)iger_left *)
OtherSide_m(t) == t

OtherSide(t) == 1 - t

----------------------------------------------------------------------------
(* _take_action: the door flags after the action, or the ValueError.  The  *)
(* append to the action log happens before the action is looked at.        *)

LogAppend_m(memory, episode, action) ==
    [i \in 1..Len(memory) |-> Append(memory[i], action)]

LogAppend(memory, episode, action) ==
    [memory EXCEPT ![episode + 1] = Append(@, action)]

TakeActionRaises(action) ==
    action \notin {ACTION_OPEN_LEFT, ACTION_OPEN_RIGHT, ACTION_LISTEN}

TakeActionDoors(action, ldo, rdo) ==
    IF action = ACTION_OPEN_LEFT THEN <<TRUE, rdo>>
    ELSE IF action = ACTION_OPEN_RIGHT THEN <<ldo, TRUE>>
    ELSE <<ldo, rdo>>

(* _get_reward *)
GetReward_m(ldo, rdo, tl, tr) ==
    IF ~(ldo \/ rdo) THEN reward_listen
    ELSE IF ldo THEN (IF Truthy(tl) THEN reward_tiger ELSE reward_gold)
    ELSE IF rdo THEN (IF Truthy(tl) THEN reward_tiger ELSE reward_gold)
    ELSE "Unreachable"

GetReward(ldo, rdo, tl, tr) ==
    IF ~(ldo \/ rdo) THEN reward_listen
    ELSE IF ldo THEN (IF Truthy(tl) THEN reward_tiger ELSE reward_gold)
    ELSE IF rdo THEN (IF Truthy(tr) THEN reward_tiger ELSE reward_gold)
    ELSE "Unreachable"

(* _get_reward reaches its final raise ValueError('Unreachable state reached.') *)
GetRewardRaises_m(ldo, rdo) ==
    /\ ~(~(ldo \/ rdo))
    /\ ~ldo

GetRewardRaises(ldo, rdo) ==
    /\ ~(~(ldo \/ rdo))
    /\ ~ldo
    /\ ~rdo

(* _get_obs: u is the value np.random.rand() returns when it is called *)
GetObs_m(last_action, tl, acc, u) ==
    IF last_action # ACTION_LISTEN
    THEN (IF Truthy(tl) THEN OBS_GROWL_LEFT ELSE OBS_GROWL_RIGHT)
    ELSE IF u > acc
    THEN (IF Truthy(tl) THEN OBS_GROWL_LEFT ELSE OBS_GROWL_RIGHT)
    ELSE (IF Truthy(tl) THEN OBS_GROWL_RIGHT ELSE OBS_GROWL_LEFT)

GetObs_m2(last_action, tl, acc, u) ==
    IF last_action # ACTION_LISTEN
    THEN OBS_START
    ELSE IF u < acc
    THEN (IF Truthy(tl) THEN OBS_GROWL_LEFT ELSE OBS_GROWL_RIGHT)
    ELSE (IF Truthy(tl) THEN OBS_GROWL_RIGHT ELSE OBS_GROWL_LEFT)

GetObs_m3(last_action, tl, acc, u) ==
    IF u < acc
    THEN (IF Truthy(tl) THEN OBS_GROWL_LEFT ELSE OBS_GROWL_RIGHT)
    ELSE (IF Truthy(tl) THEN OBS_GROWL_RIGHT ELSE OBS_GROWL_LEFT)

GetObs(last_action, tl, acc, u) ==
    IF last_action # ACTION_LISTEN
    THEN (IF Truthy(tl) THEN OBS_GROWL_LEFT ELSE OBS_GROWL_RIGHT)
    ELSE IF u < acc
    THEN (IF Truthy(tl) THEN OBS_GROWL_LEFT ELSE OBS_GROWL_RIGHT)
    ELSE (IF Truthy(tl) THEN OBS_GROWL_RIGHT ELSE OBS_GROWL_LEFT)

(* _step_reset: the tiger side it leaves, entered with doors ldo, rdo and  *)
(* side old, t being the side np.random.randint(0, 2) draws                *)
StepResetSide_m(ldo, rdo, old, t) == IF ldo \/ rdo THEN t ELSE old

StepResetSide(ldo, rdo, old, t) == t

(* The done test of step(), evaluated twice there *)
IsDone_m(step, max) == step > max

IsDone(step, max) == step >= max

----------------------------------------------------------------------------
(* reset(): t is the side np.random.randint(0, 2) draws *)

ResetStep_m == -1 + 1

ResetStep == -1

Reset_m(t) ==
    /\ curr_step' = curr_step
    /\ curr_episode' = curr_episode + 1
    /\ action_episode_memory' = Append(action_episode_memory, <<>>)
    /\ left_door_open' = FALSE
    /\ right_door_open' = FALSE
    /\ tiger_left' = t
    /\ tiger_right' = OtherSide(t)
    /\ ret' = [op |-> "reset", action |-> ACTION_LISTEN, err |-> "none",
               ob |-> OBS_START, reward |-> NoReward, done |-> FALSE]
    /\ returned' = 0
    /\ done_seen' = FALSE
    /\ UNCHANGED config

Reset(t) ==
    /\ curr_step' = ResetStep
    /\ curr_episode' = curr_episode + 1
    /\ action_episode_memory' = Append(action_episode_memory, <<>>)
    /\ left_door_open' = FALSE
    /\ right_door_open' = FALSE
    /\ tiger_left' = t
    /\ tiger_right' = OtherSide(t)
    /\ ret' = [op |-> "reset", action |-> ACTION_LISTEN, err |-> "none",
               ob |-> OBS_START, reward |-> NoReward, done |-> FALSE]
    /\ returned' = 0
    /\ done_seen' = FALSE
    /\ UNCHANGED config

(* step(action): u is the value of np.random.rand() in _get_obs, t the     *)
(* side drawn in _step_reset                                               *)
Step_m(action, u, t) ==
    IF IsDone(curr_step, max_steps_per_episode)
    THEN \* the counter is raised before the done test
         /\ curr_step' = curr_step + 1
         /\ ret' = [op |-> "step", action |-> action, err |-> "EpisodeDone",
                    ob |-> NoOb, reward |-> NoReward, done |-> FALSE]
         /\ UNCHANGED <<config, curr_episode, action_episode_memory,
                        left_door_open, right_door_open, tiger_left,
                        tiger_right, returned, done_seen>>
    ELSE
      LET step1 == curr_step + 1
          memory1 == LogAppend(action_episode_memory, curr_episode, action)
      IN  IF TakeActionRaises(action)
          THEN /\ curr_step' = step1
               /\ action_episode_memory' = memory1
               /\ ret' = [op |-> "step", action |-> action, err |-> "InvalidAction",
                          ob |-> NoOb, reward |-> NoReward, done |-> FALSE]
               /\ UNCHANGED <<config, curr_episode, left_door_open,
                              right_door_open, tiger_left, tiger_right,
                              returned, done_seen>>
          ELSE
            LET doors == TakeActionDoors(action, left_door_open, right_door_open)
                done == IsDone(step1, max_steps_per_episode)
                reward == GetReward(doors[1], doors[2], tiger_left, tiger_right)
                last_action == memory1[curr_episode + 1][Len(memory1[curr_episode + 1])]
                ob == GetObs(last_action, tiger_left, obs_accuracy, u)
                side == StepResetSide(doors[1], doors[2], tiger_left, t)
            IN  /\ curr_step' = step1
                /\ action_episode_memory' = memory1
                /\ left_door_open' = FALSE
                /\ right_door_open' = FALSE
                /\ tiger_left' = side
                /\ tiger_right' = OtherSide(side)
                /\ ret' = [op |-> "step", action |-> action, err |-> "none",
                           ob |-> ob, reward |-> reward, done |-> done]
                /\ returned' = returned + 1
                /\ done_seen' = (done_seen \/ done)
                /\ UNCHANGED <<config, curr_episode>>

Step(action, u, t) ==
    IF IsDone(curr_step, max_steps_per_episode)
    THEN \* raise RuntimeError("Episode is done")
         /\ ret' = [op |-> "step", action |-> action, err |-> "EpisodeDone",
                    ob |-> NoOb, reward |-> NoReward, done |-> FALSE]
         /\ UNCHANGED <<config, curr_episode, action_episode_memory, curr_step,
                        left_door_open, right_door_open, tiger_left,
                        tiger_right, returned, done_seen>>
    ELSE
      LET step1 == curr_step + 1
          memory1 == LogAppend(action_episode_memory, curr_episode, action)
      IN  IF TakeActionRaises(action)
          THEN \* ValueError out of _take_action, after the counter and the log
               /\ curr_step' = step1
               /\ action_episode_memory' = memory1
               /\ ret' = [op |-> "step", action |-> action, err |-> "InvalidAction",
                          ob |-> NoOb, reward |-> NoReward, done |-> FALSE]
               /\ UNCHANGED <<config, curr_episode, left_door_open,
                              right_door_open, tiger_left, tiger_right,
                              returned, done_seen>>
          ELSE
            LET doors == TakeActionDoors(action, left_door_open, right_door_open)
            IN  IF GetRewardRaises(doors[1], doors[2])
                THEN \* ValueError out of _get_reward, before _step_reset
                     /\ curr_step' = step1
                     /\ action_episode_memory' = memory1
                     /\ left_door_open' = doors[1]
                     /\ right_door_open' = doors[2]
                     /\ ret' = [op |-> "step", action |-> action, err |-> "Unreachable",
                                ob |-> NoOb, reward |-> NoReward, done |-> FALSE]
                     /\ UNCHANGED <<config, curr_episode, tiger_left, tiger_right,
                                    returned, done_seen>>
                ELSE
                  LET done == IsDone(step1, max_steps_per_episode)
                      reward == GetReward(doors[1], doors[2], tiger_left, tiger_right)
                      last_action == memory1[curr_episode + 1][Len(memory1[curr_episode + 1])]
                      ob == GetObs(last_action, tiger_left, obs_accuracy, u)
                      \* _step_reset
                      side == StepResetSide(doors[1], doors[2], tiger_left, t)
                  IN  /\ curr_step' = step1
                      /\ action_episode_memory' = memory1
                      /\ left_door_open' = FALSE
                      /\ right_door_open' = FALSE
                      /\ tiger_left' = side
                      /\ tiger_right' = OtherSide(side)
                      /\ ret' = [op |-> "step", action |-> action, err |-> "none",
                                 ob |-> ob, reward |-> reward, done |-> done]
                      /\ returned' = returned + 1
                      /\ done_seen' = (done_seen \/ done)
                      /\ UNCHANGED <<config, curr_episode>>

----------------------------------------------------------------------------
(* __init__: the fields, then reset() *)

InitWith(max, acc, t) ==
    /\ max_steps_per_episode = max
    /\ obs_accuracy = acc
    /\ curr_episode = 0
    /\ action_episode_memory = <<<<>>>>
    /\ curr_step = ResetStep
    /\ left_door_open = FALSE
    /\ right_door_open = FALSE
    /\ tiger_left = t
    /\ tiger_right = OtherSide(t)
    /\ ret = [op |-> "init", action |-> ACTION_LISTEN, err |-> "none",
              ob |-> NoOb, reward |-> NoReward, done |-> FALSE]
    /\ returned = 0
    /\ done_seen = FALSE

Init == \E max \in 1..MaxN, acc \in Accuracies, t \in Sides : InitWith(max, acc, t)

RECURSIVE SumLen(_)
SumLen(s) == IF s = <<>> THEN 0 ELSE Len(Head(s)) + SumLen(Tail(s))

Logged == SumLen(action_episode_memory)

CurrentLog == action_episode_memory[curr_episode + 1]

StepCall ==
    \E action \in Actions, u \in Draws, t \in Sides :
        /\ IsDone(curr_step, max_steps_per_episode) \/ Logged < MaxLogged
        /\ Step(action, u, t)

ResetCall ==
    \E t \in Sides :
        /\ curr_episode < MaxEpisode
        /\ Reset(t)

Next == StepCall \/ ResetCall

Spec == Init /\ [][Next]_vars

----------------------------------------------------------------------------
(* The engine with the constructor's defaults, driven through one episode  *)
(* by a caller that takes at most one action other than LISTEN.            *)

AllListen(log) == \A i \in 1..Len(log) : log[i] = ACTION_LISTEN

InitDefault == \E t \in Sides : InitWith(DefaultMaxSteps, DefaultObsAccuracy, t)

StepCallDefault ==
    \E action \in Actions, u \in Draws, t \in Sides :
        /\ action = ACTION_LISTEN \/ AllListen(CurrentLog)
        /\ Step(action, u, t)

NextDefault == StepCallDefault

SpecDefault == InitDefault /\ [][NextDefault]_vars

----------------------------------------------------------------------------
(* Properties *)

Returned(r) == r.op = "step" /\ r.err = "none"
Rejected(r) == r.op = "step" /\ r.err = "EpisodeDone"
OpensDoor(a) == a \in {ACTION_OPEN_LEFT, ACTION_OPEN_RIGHT}

(* C1: once a step() of the episode has returned done=True, every further  *)
(* step(), with any action, raises "Episode is done" until reset(); the    *)
(* step() that follows a reset() is not rejected.                          *)
C1_RejectedUntilReset ==
    [][ /\ (done_seen /\ ret'.op = "step") => ret'.err = "EpisodeDone"
        /\ (ret.op = "reset" /\ ret'.op = "step") => ret'.err # "EpisodeDone" ]_vars

(* C1 witness: in a second episode, begun by reset() after a finished      *)
(* first one, steps were accepted, one returned done=True and the next     *)
(* call was rejected.                                                      *)
C1_Witness ==
    /\ curr_episode = 1
    /\ Len(action_episode_memory[1]) > max_steps_per_episode
    /\ done_seen
    /\ Rejected(ret)

(* C2: a step() with an action outside the enumeration raises the          *)
(* invalid-action error and leaves the step counter, the action log, the   *)
(* episode index, the doors and the tiger side as they were.               *)
C2_InvalidActionMutatesNothing ==
    [][ (ret'.op = "step" /\ ret'.err = "InvalidAction") =>
          UNCHANGED <<curr_step, action_episode_memory, curr_episode,
                      left_door_open, right_door_open, tiger_left, tiger_right>> ]_vars

(* C3: with max_steps_per_episode = N >= 1, the first N step(LISTEN) calls *)
(* of an episode all return, the first N-1 with done=False and the N-th    *)
(* with done=True.                                                         *)
C3_DoneOnNthListen ==
    ( /\ max_steps_per_episode >= 1
      /\ Len(CurrentLog) \in 1..max_steps_per_episode
      /\ AllListen(CurrentLog) )
    => ( /\ Returned(ret)
         /\ ret.done <=> (Len(CurrentLog) = max_steps_per_episode) )

(* C4: in one episode the number of step() calls that return never         *)
(* exceeds max_steps_per_episode.                                          *)
C4_AtMostMaxSteps == returned <= max_steps_per_episode

C6_RewardFromPriorSide ==
    [][ Returned(ret') =>
          ret'.reward =
            CASE ret'.action = ACTION_LISTEN -> reward_listen
              [] ret'.action = ACTION_OPEN_LEFT ->
                   (IF tiger_left = 1 THEN reward_tiger ELSE reward_gold)
              [] ret'.action = ACTION_OPEN_RIGHT ->
                   (IF tiger_right = 1 THEN reward_tiger ELSE reward_gold) ]_vars

(* C6 witness: OPEN_RIGHT returned reward_gold although the side drawn     *)
(* during the step puts the tiger on the right.                            *)
C6_Witness ==
    /\ Returned(ret)
    /\ ret.action = ACTION_OPEN_RIGHT
    /\ ret.reward = reward_gold
    /\ tiger_right = 1

(* C7: in every reachable state exactly one of tiger_left and tiger_right  *)
(* is true.                                                                *)
C7_ExactlyOneSide == Truthy(tiger_left) # Truthy(tiger_right)

(* C7 witness: after a reset() and a step() that returned, and after one   *)
(* that raised on an invalid action, the tiger is on the right only.       *)
C7_Witness ==
    /\ curr_episode = 1
    /\ returned > 0
    /\ ret.op = "step" /\ ret.err = "InvalidAction"
    /\ tiger_right = 1 /\ tiger_left = 0

(* C8: reset() returns START and leaves the step counter at -1, and the    *)
(* next step() that returns raises it to 0.                                *)
C8_ResetToSentinel ==
    [][ /\ ret'.op = "reset" => (ret'.err = "none" /\ ret'.ob = OBS_START /\ curr_step' = -1)
        /\ (ret.op = "reset" /\ Returned(ret')) => curr_step' = 0 ]_vars

(* C8 witness: a reset() issued right after a step() that raised on an     *)
(* invalid action in a finished episode.                                   *)
C8_Witness ==
    /\ ret.op = "reset"
    /\ curr_step = -1
    /\ LET prev == action_episode_memory[curr_episode]
       IN  /\ Len(prev) > max_steps_per_episode
           /\ TakeActionRaises(prev[Len(prev)])

(* C9: reset() raises the episode index by 1 and adds one empty log,       *)
(* keeping every earlier log; step() keeps the episode index and every     *)
(* log but the current one, to which it appends its action or nothing.     *)
C9_HistoryAppendOnly ==
    [][ /\ ret'.op = "reset" =>
              /\ curr_episode' = curr_episode + 1
              /\ action_episode_memory' = action_episode_memory \o << <<>> >>
        /\ ret'.op = "step" =>
              /\ curr_episode' = curr_episode
              /\ Len(action_episode_memory') = Len(action_episode_memory)
              /\ \A i \in 1..Len(action_episode_memory) :
                    i # curr_episode + 1 =>
                        action_episode_memory'[i] = action_episode_memory[i]
              /\ action_episode_memory'[curr_episode + 1] \in
                    { CurrentLog, Append(CurrentLog, ret'.action) } ]_vars

(* C9 witness: a second episode with recorded actions next to the kept log *)
(* of the first.                                                           *)
C9_Witness ==
    /\ curr_episode = 1
    /\ Len(action_episode_memory[1]) > 0
    /\ Len(action_episode_memory[2]) > 1

(* C10: with obs_accuracy = 1.0 every step(LISTEN) that returns gives the  *)
(* growl of the tiger side held before the call, whatever the draw.        *)
C10_PerfectAccuracy ==
    [][ (obs_accuracy = 100 /\ Returned(ret') /\ ret'.action = ACTION_LISTEN) =>
          ret'.ob = (IF tiger_left = 1 THEN OBS_GROWL_LEFT ELSE OBS_GROWL_RIGHT) ]_vars

(* C10 witness: with obs_accuracy = 1.0 a LISTEN returned GROWL_LEFT and   *)
(* the side drawn during the step puts the tiger on the right.             *)
C10_Witness ==
    /\ obs_accuracy = 100
    /\ Returned(ret)
    /\ ret.action = ACTION_LISTEN
    /\ ret.ob = OBS_GROWL_LEFT
    /\ tiger_left = 0

OneHot(v) ==
    /\ \A i \in 1..Len(v) : v[i] \in {0, 1}
    /\ Cardinality({i \in 1..Len(v) : v[i] = 1}) = 1

ValidActions == {ACTION_OPEN_LEFT, ACTION_OPEN_RIGHT, ACTION_LISTEN}

(* C11: every observation returned is one-hot; reset() returns START and   *)
(* a step() that returns gives GROWL_LEFT or GROWL_RIGHT, never START.     *)
C11_ObservationsOneHot ==
    /\ ret.op = "reset" => (ret.ob = OBS_START /\ OneHot(ret.ob))
    /\ Returned(ret) => (ret.ob \in {OBS_GROWL_LEFT, OBS_GROWL_RIGHT} /\ OneHot(ret.ob))

(* C11 witness: in an episode begun by reset(), a door-opening step        *)
(* returned GROWL_RIGHT.                                                   *)
C11_Witness ==
    /\ curr_episode = 1
    /\ Returned(ret)
    /\ OpensDoor(ret.action)
    /\ ret.ob = OBS_GROWL_RIGHT

(* C12: the length of every observation vector returned by reset() and by  *)
(* step() equals the size of the declared observation space.               *)
C12_ObservationLengthIsSpaceSize ==
    (ret.op = "reset" \/ Returned(ret)) => Len(ret.ob) = observation_space_n

(* C13: a step(LISTEN) that returns leaves the tiger side as it was before *)
(* the call; the side is redrawn only after a door was opened.             *)
C13_ListenKeepsSide ==
    [][ (Returned(ret') /\ ret'.action = ACTION_LISTEN) =>
          (tiger_left' = tiger_left /\ tiger_right' = tiger_right) ]_vars

(* C14: a step() rejected with the episode-done error leaves the step      *)
(* counter, the episode index, every action log, the doors and the tiger   *)
(* side unchanged, for every action value.                                 *)
C14_RejectedChangesNothing ==
    [][ Rejected(ret') =>
          UNCHANGED <<curr_step, curr_episode, action_episode_memory,
                      left_door_open, right_door_open, tiger_left, tiger_right>> ]_vars

(* C14 witness: a call with an invalid action was rejected in a finished   *)
(* episode whose log and counter stand where the last accepted call left   *)
(* them.                                                                   *)
C14_Witness ==
    /\ Rejected(ret)
    /\ TakeActionRaises(ret.action)
    /\ curr_step = max_steps_per_episode
    /\ Len(CurrentLog) = max_steps_per_episode + 1

C16_DoorOpenGrowlAccurate ==
    [][ (Returned(ret') /\ OpensDoor(ret'.action)) =>
          ret'.ob = (IF tiger_left = 1 THEN OBS_GROWL_LEFT ELSE OBS_GROWL_RIGHT) ]_vars

(* C16 witness: with obs_accuracy = 0, OPEN_LEFT returned GROWL_RIGHT with *)
(* reward_gold (tiger on the right before the call) and the side drawn     *)
(* during the step puts the tiger on the left.                             *)
C16_Witness ==
    /\ obs_accuracy = 0
    /\ Returned(ret)
    /\ ret.action = ACTION_OPEN_LEFT
    /\ ret.ob = OBS_GROWL_RIGHT
    /\ ret.reward = reward_gold
    /\ tiger_left = 1

C18_UnreachableNotReached ==
    /\ ret.err # "Unreachable"
    /\ ~left_door_open /\ ~right_door_open

(* C18 witness: OPEN_RIGHT returned a reward right after an OPEN_LEFT of   *)
(* the same episode.                                                       *)
C18_Witness ==
    /\ Returned(ret)
    /\ ret.action = ACTION_OPEN_RIGHT
    /\ ret.reward = reward_tiger
    /\ Len(CurrentLog) >= 2
    /\ CurrentLog[Len(CurrentLog) - 1] = ACTION_OPEN_LEFT

(* C19: step() is rejected with the episode-done error only in an episode  *)
(* in which an earlier step() returned done=True.                          *)
C19_RejectedOnlyAfterDone == Rejected(ret) => done_seen

(* C20: the number of action logs is the episode index + 1 and the length  *)
(* of the current episode's log is the step counter + 1.                   *)
C20_BookkeepingConsistent ==
    /\ Len(action_episode_memory) = curr_episode + 1
    /\ Len(CurrentLog) = curr_step + 1

(* C20 witness: in the second episode a valid and then an invalid action   *)
(* were recorded.                                                          *)
C20_Witness ==
    /\ curr_episode = 1
    /\ ret.op = "step" /\ ret.err = "InvalidAction"
    /\ curr_step = 1
    /\ CurrentLog[1] \in ValidActions

====
